---- MODULE Spec2Model ----
(***************************************************************************)
(* Model of the two health-check templates of bluejazz822/networkdb:       *)
(*   scripts/templates/network_ping_check.py                               *)
(*   scripts/templates/database_health_check.py                            *)
(* Strings are sequences of one-character strings; Python values are       *)
(* tagged records so that values of different Python types can be compared.*)
(***************************************************************************)
EXTENDS Integers, Sequences, FiniteSets, TLC

(***************************************************************************)
(* Bounds of the model                                                     *)
(***************************************************************************)
\* longest raw value of an environment variable handed to get_parameter
MaxRawLen == 3
\* longest raw value of PARAM_HOSTS in a run of the network script
MaxHostsLen == 3

(***************************************************************************)
(* Python values                                                           *)
(***************************************************************************)
NoneV == [t |-> "none", i |-> 0, s |-> <<>>, l |-> <<>>]
IntV(n) == [t |-> "int", i |-> n, s |-> <<>>, l |-> <<>>]
StrV(x) == [t |-> "str", i |-> 0, s |-> x, l |-> <<>>]
BoolV(b) == [t |-> "bool", i |-> IF b THEN 1 ELSE 0, s |-> <<>>, l |-> <<>>]
ListV(x) == [t |-> "list", i |-> 0, s |-> <<>>, l |-> x]

\* bool(value): Python truthiness, as used by `if not x` / `if x`
Truthy(v) ==
    CASE v.t = "none" -> FALSE
      [] v.t = "int" -> v.i # 0
      [] v.t = "bool" -> v.i = 1
      [] v.t = "str" -> v.s # <<>>
      [] v.t = "list" -> v.l # <<>>
      [] OTHER -> TRUE

\* all sequences over A of length at most n
RECURSIVE SeqsUpTo(_, _)
SeqsUpTo(A, n) ==
    IF n = 0 THEN {<<>>}
    ELSE LET shorter == SeqsUpTo(A, n - 1)
         IN  shorter \cup {Append(x, a) : x \in {y \in shorter : Len(y) = n - 1}, a \in A}

(***************************************************************************)
(* str methods: strip, split, lower, upper                                 *)
(***************************************************************************)
Whitespace == {" "}

RECURSIVE LStrip(_)
LStrip(s) ==
    IF s = <<>> THEN s
    ELSE IF Head(s) \in Whitespace THEN LStrip(Tail(s)) ELSE s

RECURSIVE RStrip(_)
RStrip(s) ==
    IF s = <<>> THEN s
    ELSE IF s[Len(s)] \in Whitespace THEN RStrip(SubSeq(s, 1, Len(s) - 1)) ELSE s

\* str.strip()
Strip(s) == RStrip(LStrip(s))

\* str.split(sep): always at least one piece, empty pieces are kept
RECURSIVE SplitAcc(_, _, _, _)
SplitAcc(s, sep, cur, acc) ==
    IF s = <<>> THEN Append(acc, cur)
    ELSE IF Head(s) = sep THEN SplitAcc(Tail(s), sep, <<>>, Append(acc, cur))
    ELSE SplitAcc(Tail(s), sep, Append(cur, Head(s)), acc)

Split(s, sep) == SplitAcc(s, sep, <<>>, <<>>)

\* [item.strip() for item in value.split(',') if item.strip()]
RECURSIVE StripNonEmpty(_)
StripNonEmpty(pieces) ==
    IF pieces = <<>> THEN <<>>
    ELSE LET p == Strip(Head(pieces))
         IN  IF p # <<>> THEN <<p>> \o StripNonEmpty(Tail(pieces))
             ELSE StripNonEmpty(Tail(pieces))

SplitHosts(s) == StripNonEmpty(Split(s, ","))

LowerChar(c) ==
    CASE c = "A" -> "a" [] c = "B" -> "b" [] c = "C" -> "c" [] c = "D" -> "d" [] c = "E" -> "e"
      [] c = "F" -> "f" [] c = "G" -> "g" [] c = "H" -> "h" [] c = "I" -> "i" [] c = "J" -> "j"
      [] c = "K" -> "k" [] c = "L" -> "l" [] c = "M" -> "m" [] c = "N" -> "n" [] c = "O" -> "o"
      [] c = "P" -> "p" [] c = "Q" -> "q" [] c = "R" -> "r" [] c = "S" -> "s" [] c = "T" -> "t"
      [] c = "U" -> "u" [] c = "V" -> "v" [] c = "W" -> "w" [] c = "X" -> "x" [] c = "Y" -> "y"
      [] c = "Z" -> "z"
      [] OTHER -> c

UpperChar(c) ==
    CASE c = "a" -> "A" [] c = "b" -> "B" [] c = "c" -> "C" [] c = "d" -> "D" [] c = "e" -> "E"
      [] c = "f" -> "F" [] c = "g" -> "G" [] c = "h" -> "H" [] c = "i" -> "I" [] c = "j" -> "J"
      [] c = "k" -> "K" [] c = "l" -> "L" [] c = "m" -> "M" [] c = "n" -> "N" [] c = "o" -> "O"
      [] c = "p" -> "P" [] c = "q" -> "Q" [] c = "r" -> "R" [] c = "s" -> "S" [] c = "t" -> "T"
      [] c = "u" -> "U" [] c = "v" -> "V" [] c = "w" -> "W" [] c = "x" -> "X" [] c = "y" -> "Y"
      [] c = "z" -> "Z"
      [] OTHER -> c

\* str.lower()
Lower(s) == [k \in 1..Len(s) |-> LowerChar(s[k])]
\* str.upper()
Upper(s) == [k \in 1..Len(s) |-> UpperChar(s[k])]

(***************************************************************************)
(* int(value) and str(value)                                               *)
(***************************************************************************)
Digits == {"0", "1", "2", "3", "4", "5", "6", "7", "8", "9"}

DigitVal(c) ==
    CASE c = "0" -> 0 [] c = "1" -> 1 [] c = "2" -> 2 [] c = "3" -> 3 [] c = "4" -> 4
      [] c = "5" -> 5 [] c = "6" -> 6 [] c = "7" -> 7 [] c = "8" -> 8 [] c = "9" -> 9

DigitChar(d) ==
    CASE d = 0 -> "0" [] d = 1 -> "1" [] d = 2 -> "2" [] d = 3 -> "3" [] d = 4 -> "4"
      [] d = 5 -> "5" [] d = 6 -> "6" [] d = 7 -> "7" [] d = 8 -> "8" [] d = 9 -> "9"

RECURSIVE DigitsVal(_, _)
DigitsVal(s, acc) ==
    IF s = <<>> THEN acc ELSE DigitsVal(Tail(s), acc * 10 + DigitVal(Head(s)))

AllDigits(s) == s # <<>> /\ \A k \in 1..Len(s) : s[k] \in Digits

\* int(str): surrounding whitespace is ignored, one optional sign, then digits
ParseInt(raw) ==
    LET s == Strip(raw)
        signed == s # <<>> /\ Head(s) \in {"-", "+"}
        body == IF signed THEN Tail(s) ELSE s
    IN  IF AllDigits(body)
        THEN [ok |-> TRUE,
              n |-> IF signed /\ Head(s) = "-" THEN 0 - DigitsVal(body, 0)
                    ELSE DigitsVal(body, 0)]
        ELSE [ok |-> FALSE, n |-> 0]

\* int(value): the exception it raises ("none" when it returns) and its value
py_int(v) ==
    CASE v.t = "int" -> [exc |-> "none", value |-> v]
      [] v.t = "bool" -> [exc |-> "none", value |-> IntV(v.i)]
      [] v.t = "str" ->
            IF ParseInt(v.s).ok THEN [exc |-> "none", value |-> IntV(ParseInt(v.s).n)]
            ELSE [exc |-> "ValueError", value |-> NoneV]
      [] OTHER -> [exc |-> "TypeError", value |-> NoneV]

RECURSIVE NatToStr(_)
NatToStr(n) ==
    IF n < 10 THEN <<DigitChar(n)>> ELSE Append(NatToStr(n \div 10), DigitChar(n % 10))

RECURSIVE JoinRepr(_)
JoinRepr(l) ==
    IF l = <<>> THEN <<>>
    ELSE <<"'">> \o Head(l) \o <<"'">>
         \o (IF Len(l) > 1 THEN <<",", " ">> ELSE <<>>) \o JoinRepr(Tail(l))

\* str(value)
py_str(v) ==
    CASE v.t = "str" -> v.s
      [] v.t = "int" -> IF v.i < 0 THEN <<"-">> \o NatToStr(0 - v.i) ELSE NatToStr(v.i)
      [] v.t = "bool" -> IF v.i = 1 THEN <<"T", "r", "u", "e">> ELSE <<"F", "a", "l", "s", "e">>
      [] v.t = "none" -> <<"N", "o", "n", "e">>
      [] v.t = "list" -> <<"[">> \o JoinRepr(v.l) \o <<"]">>

(***************************************************************************)
(* get_parameter (both scripts)                                            *)
(***************************************************************************)
\* the process environment: a function from variable names to StrV values;
\* a name outside its domain is not set
EnvPrefix == <<"P", "A", "R", "A", "M", "_">>
EnvName(name) == EnvPrefix \o Upper(name)

\* os.environ.get(key, default)
EnvironGet(environ, key, default) ==
    IF key \in DOMAIN environ THEN environ[key] ELSE default

TrueWords ==
    {<<"t", "r", "u", "e">>, <<"1">>, <<"y", "e", "s">>, <<"o", "n">>}

Returned(v) == [exc |-> "none", value |-> v]
Raised(e) == [exc |-> e, value |-> NoneV]

\* IntBranch without the try/except around int(value)
IntBranchUncaught(value, default) ==
    LET r == py_int(value)
    IN  IF r.exc = "none" THEN Returned(r.value) ELSE Raised(r.exc)

\* the int branch: only ValueError is caught
IntBranch(value, default) ==
    LET r == py_int(value)
    IN  IF r.exc = "none" THEN Returned(r.value)
        ELSE IF r.exc = "ValueError" THEN Returned(default)
        ELSE Raised(r.exc)

\* network_ping_check.get_parameter
get_parameter_net(environ, name, default, param_type) ==
    LET value == EnvironGet(environ, EnvName(name), default)
    IN  IF value = NoneV THEN Returned(NoneV)
        ELSE IF param_type = "int" THEN IntBranch(value, default)
        ELSE IF param_type = "bool" THEN Returned(BoolV(Lower(py_str(value)) \in TrueWords))
        ELSE IF param_type = "list" /\ value.t = "str" THEN Returned(ListV(SplitHosts(value.s)))
        ELSE Returned(value)

\* database_health_check.get_parameter (no list branch)
get_parameter_db(environ, name, default, param_type) ==
    LET value == EnvironGet(environ, EnvName(name), default)
    IN  IF value = NoneV THEN Returned(NoneV)
        ELSE IF param_type = "int" THEN IntBranch(value, default)
        ELSE IF param_type = "bool" THEN Returned(BoolV(Lower(py_str(value)) \in TrueWords))
        ELSE Returned(value)


(***************************************************************************)
(* State                                                                   *)
(***************************************************************************)
VARIABLES
    variant,            \* which script runs: "network" or "database"
    pc,                 \* position of main()
    environ,            \* os.environ
    hosts_param, count, timeout, hosts,
    results, total_hosts, successful_hosts,
    transport,          \* what subprocess.run did for the host probed last
    db_type, port, database,
    connection, all_results, overall_success,
    tests_run,          \* iterations of the loop over the four checks so far
    driver,             \* what the database driver did in the step taken last
    connect_calls, close_calls,
    summary,            \* the numbers of the summary block
    report,             \* the report file: "none", "written" or "failed"
    exit_code,          \* argument of sys.exit, NoExit while running
    call, ret           \* one call of get_parameter and what it returned

vars == <<variant, pc, environ, hosts_param, count, timeout, hosts,
          results, total_hosts, successful_hosts, transport,
          db_type, port, database, connection, all_results, overall_success,
          tests_run, driver, connect_calls, close_calls, summary, report,
          exit_code, call, ret>>

netVars == <<results, total_hosts, successful_hosts, transport>>
dbVars == <<db_type, port, database, connection, all_results, overall_success,
            tests_run, driver, connect_calls, close_calls>>
paramVars == <<call, ret>>

NoExit == [t |-> "running", i |-> 0, s |-> <<>>, l |-> <<>>]
NoSummary == [total |-> 0, successful |-> 0, failed |-> 0, success_rate |-> 0, computed |-> FALSE]
\* no subprocess run, no driver call, no get_parameter call yet
Idle == [kind |-> "idle", call |-> "idle"]

\* parameter names
N_hosts == <<"h", "o", "s", "t", "s">>
N_count == <<"c", "o", "u", "n", "t">>
N_timeout == <<"t", "i", "m", "e", "o", "u", "t">>
N_db_type == <<"d", "b", "_", "t", "y", "p", "e">>
N_port == <<"p", "o", "r", "t">>
N_database == <<"d", "a", "t", "a", "b", "a", "s", "e">>

\* an environment in which exactly the variables with a raw value are set
Unset == [t |-> "unset", i |-> 0, s |-> <<>>, l |-> <<>>]
MkEnviron(names, raw) ==
    LET set == {n \in names : raw[n] # Unset}
    IN  [k \in {EnvName(n) : n \in set} |->
            raw[CHOOSE n \in set : EnvName(n) = k]]

(***************************************************************************)
(* network_ping_check.py                                                   *)
(***************************************************************************)
DefaultCount == 4
DefaultTimeout == 5
TimeoutMargin == 10
FullLoss == 100

\* lines of ping's standard output, by what the parser makes of them
\*   stats_all      "4 packets transmitted, 4 received, 0% packet loss"
\*   stats_partial  "4 packets transmitted, 2 received, 50% packet loss"
\*   stats_bad      a statistics line whose numbers do not convert
\*   rtt_ok         "rtt min/avg/max/mdev = 1/2/3/0 ms"
\*   rtt_bad        a min/avg/max line whose numbers do not convert
\*   other          any other line (also a statistics line with fewer than three
\*                  comma parts and a min/avg/max line without '=')
LineKinds == {"stats_all", "stats_partial", "stats_bad", "rtt_ok", "rtt_bad", "other"}
MaxLines == 2

\* what subprocess.run can do: the command completes with status 0 and some
\* output, completes with a non-zero status (with or without text on stderr,
\* with or without statistics on stdout), runs into the timeout, or cannot be
\* started at all
Transports ==
    [kind : {"completed"}, returncode : {0}, stdout : SeqsUpTo(LineKinds, MaxLines),
     stderr : {<<>>}]
    \cup [kind : {"completed"}, returncode : {1}, stdout : {<<>>, <<"stats_partial">>},
          stderr : {<<>>, <<"unreachable">>}]
    \cup {[kind |-> "timeout", returncode |-> 0, stdout |-> <<>>, stderr |-> <<>>],
          [kind |-> "error", returncode |-> 0, stdout |-> <<>>, stderr |-> <<"no ping binary">>]}

\* the result dictionary ping_host starts from
InitialResult(host) ==
    [host |-> host, success |-> FALSE, packets_sent |-> 0, packets_received |-> 0,
     packet_loss_percent |-> FullLoss, min_time |-> NoneV, avg_time |-> NoneV,
     max_time |-> NoneV, error |-> NoneV]

\* the body of `for line in lines` for one line: the updated result, and
\* whether a conversion raised
ParseLine(result, line) ==
    CASE line = "stats_all" ->
            [res |-> [result EXCEPT !.packets_sent = 4, !.packets_received = 4,
                                    !.packet_loss_percent = 0], exc |-> FALSE]
      [] line = "stats_partial" ->
            [res |-> [result EXCEPT !.packets_sent = 4, !.packets_received = 2,
                                    !.packet_loss_percent = 50], exc |-> FALSE]
      [] line = "stats_bad" -> [res |-> result, exc |-> TRUE]
      [] line = "rtt_ok" ->
            [res |-> [result EXCEPT !.min_time = IntV(1), !.avg_time = IntV(2),
                                    !.max_time = IntV(3)], exc |-> FALSE]
      [] line = "rtt_bad" -> [res |-> result, exc |-> TRUE]
      [] OTHER -> [res |-> result, exc |-> FALSE]

\* the loop over the lines stops at the first line that raises
RECURSIVE ParseLines(_, _)
ParseLines(result, lines) ==
    IF lines = <<>> THEN [res |-> result, exc |-> FALSE]
    ELSE LET one == ParseLine(result, Head(lines))
         IN  IF one.exc THEN one ELSE ParseLines(one.res, Tail(lines))

TimeoutMessage(c, t) ==
    <<"Ping timeout after ">> \o py_str(IntV(t * c + TimeoutMargin)) \o <<" seconds">>

ReturnCodeMessage(rc) == <<"Ping failed with return code ">> \o py_str(IntV(rc))

\* ping_host that marks the success only after the output is parsed
ping_host_SuccessAfterParse(host, c, t, tr) ==
    LET result == InitialResult(host)
    IN  CASE tr.kind = "timeout" -> [result EXCEPT !.error = StrV(TimeoutMessage(c, t))]
          [] tr.kind = "error" -> [result EXCEPT !.error = StrV(tr.stderr)]
          [] tr.kind = "completed" /\ tr.returncode = 0 ->
                LET parsed == ParseLines(result, tr.stdout)
                IN  IF parsed.exc
                    THEN [parsed.res EXCEPT !.error = StrV(<<"could not convert">>)]
                    ELSE [parsed.res EXCEPT !.success = TRUE]
          [] OTHER ->
                [result EXCEPT !.error =
                    IF tr.stderr # <<>> THEN StrV(tr.stderr)
                    ELSE StrV(ReturnCodeMessage(tr.returncode))]

\* ping_host that leaves the error empty when ping runs into the timeout
ping_host_SilentTimeout(host, c, t, tr) ==
    LET result == InitialResult(host)
    IN  CASE tr.kind = "timeout" -> result
          [] tr.kind = "error" -> [result EXCEPT !.error = StrV(tr.stderr)]
          [] tr.kind = "completed" /\ tr.returncode = 0 ->
                LET parsed == ParseLines([result EXCEPT !.success = TRUE], tr.stdout)
                IN  IF parsed.exc
                    THEN [parsed.res EXCEPT !.error = StrV(<<"could not convert">>)]
                    ELSE parsed.res
          [] OTHER ->
                [result EXCEPT !.error =
                    IF tr.stderr # <<>> THEN StrV(tr.stderr)
                    ELSE StrV(ReturnCodeMessage(tr.returncode))]

\* ping_host(host, count, timeout), given what subprocess.run does
ping_host(host, c, t, tr) ==
    LET result == InitialResult(host)
    IN  CASE tr.kind = "timeout" -> [result EXCEPT !.error = StrV(TimeoutMessage(c, t))]
          [] tr.kind = "error" -> [result EXCEPT !.error = StrV(tr.stderr)]
          [] tr.kind = "completed" /\ tr.returncode = 0 ->
                LET parsed == ParseLines([result EXCEPT !.success = TRUE], tr.stdout)
                IN  IF parsed.exc
                    THEN [parsed.res EXCEPT !.error = StrV(<<"could not convert">>)]
                    ELSE parsed.res
          [] OTHER ->
                [result EXCEPT !.error =
                    IF tr.stderr # <<>> THEN StrV(tr.stderr)
                    ELSE StrV(ReturnCodeMessage(tr.returncode))]


\* sys.exit(code)
Exited(code) == IntV(code)

\* the exit status of an uncaught exception
Traceback == Exited(1)

\* AfterProbe with a loop that gives up at the first host that fails
AfterProbeBreak(result, probed, total) ==
    IF probed = total \/ ~result.success THEN "summary" ELSE "ping"

\* where the `for i, host in enumerate(hosts, 1)` loop goes after a probe:
\* it stops only when every host has been probed
AfterProbe(result, probed, total) ==
    IF probed = total THEN "summary" ELSE "ping"

\* NetExitCode with the first two branches in the other order
NetExitCodeSwapped(successful, total) ==
    IF successful > 0 THEN 1
    ELSE IF successful = total THEN 0
    ELSE 2

\* the if/elif/else that ends main
NetExitCode(successful, total) ==
    IF successful = total THEN 0
    ELSE IF successful > 0 THEN 1
    ELSE 2

\* (successful_hosts/total_hosts)*100, rounded down to a whole percent
NetSuccessRate(successful, total) == (successful * 100) \div total

\* NoValidHosts without the check of the parsed list
NoValidHostsUnchecked(hs) == FALSE

\* `if not hosts`: the parameter held separators and blanks only
NoValidHosts(hs) == hs = <<>>

\* main, lines 155-179: parameters, validation, host list
NetParams ==
    /\ variant = "network" /\ pc = "params"
    /\ LET hp == get_parameter_net(environ, N_hosts, StrV(<<>>), "str").value
           c == get_parameter_net(environ, N_count, IntV(DefaultCount), "int").value
           t == get_parameter_net(environ, N_timeout, IntV(DefaultTimeout), "int").value
           hs == SplitHosts(hp.s)
       IN  /\ hosts_param' = hp
           /\ count' = c
           /\ timeout' = t
           /\ IF ~Truthy(hp)
              THEN /\ exit_code' = Exited(1) /\ pc' = "done"
                   /\ UNCHANGED <<hosts, total_hosts>>
              ELSE IF NoValidHosts(hs)
              THEN /\ exit_code' = Exited(1) /\ pc' = "done"
                   /\ hosts' = hs
                   /\ UNCHANGED total_hosts
              ELSE /\ hosts' = hs
                   /\ total_hosts' = Len(hs)
                   /\ pc' = IF Len(hs) = 0 THEN "summary" ELSE "ping"
                   /\ UNCHANGED exit_code
    /\ UNCHANGED <<variant, environ, results, successful_hosts, transport,
                   dbVars, summary, report, paramVars>>

\* main, lines 183-198: one iteration of the loop over the hosts
NetPing ==
    /\ variant = "network" /\ pc = "ping"
    /\ \E tr \in Transports :
          LET host == hosts[Len(results) + 1]
              result == ping_host(host, count.i, timeout.i, tr)
          IN  /\ results' = Append(results, result)
              /\ successful_hosts' = IF result.success THEN successful_hosts + 1
                                     ELSE successful_hosts
              /\ transport' = tr
              /\ pc' = AfterProbe(result, Len(results) + 1, total_hosts)
    /\ UNCHANGED <<variant, environ, hosts_param, count, timeout, hosts, total_hosts,
                   dbVars, summary, report, exit_code, paramVars>>

\* main, lines 200-219: the summary block; the rate divides by total_hosts
NetSummary ==
    /\ variant = "network" /\ pc = "summary"
    /\ IF total_hosts = 0
       THEN /\ exit_code' = Traceback /\ pc' = "done"
            /\ UNCHANGED summary
       ELSE /\ summary' = [total |-> total_hosts,
                           successful |-> successful_hosts,
                           failed |-> total_hosts - successful_hosts,
                           success_rate |-> NetSuccessRate(successful_hosts, total_hosts),
                           computed |-> TRUE]
            /\ pc' = "save"
            /\ UNCHANGED exit_code
    /\ UNCHANGED <<variant, environ, hosts_param, count, timeout, hosts, netVars,
                   dbVars, report, paramVars>>

\* NetSaveOutcome without the try/except: a failing write ends the process
NetSaveOutcomeUncaught(written) ==
    IF written THEN [report |-> "written", pc |-> "exit", exit |-> NoExit]
    ELSE [report |-> "failed", pc |-> "done", exit |-> Traceback]

\* what becomes of the report and of main when the try block around
\* open/json.dump ends: an exception is caught and only printed
NetSaveOutcome(written) ==
    [report |-> IF written THEN "written" ELSE "failed", pc |-> "exit", exit |-> NoExit]

\* main, lines 221-248: the report file, written or not
NetSave ==
    /\ variant = "network" /\ pc = "save"
    /\ \E written \in BOOLEAN :
          /\ report' = NetSaveOutcome(written).report
          /\ pc' = NetSaveOutcome(written).pc
          /\ exit_code' = NetSaveOutcome(written).exit
    /\ UNCHANGED <<variant, environ, hosts_param, count, timeout, hosts, netVars,
                   dbVars, summary, paramVars>>

\* main, lines 250-259
NetExit ==
    /\ variant = "network" /\ pc = "exit"
    /\ exit_code' = Exited(NetExitCode(successful_hosts, total_hosts))
    /\ pc' = "done"
    /\ UNCHANGED <<variant, environ, hosts_param, count, timeout, hosts, netVars,
                   dbVars, summary, report, paramVars>>


(***************************************************************************)
(* database_health_check.py: the driver                                    *)
(***************************************************************************)
DefaultDbTimeout == 30
MysqlPort == 3306
PostgresPort == 5432
TableLimit == 20
TimestampQueries == 100
\* most tables a database holds
MaxTables == 21

MYSQL == <<"m", "y", "s", "q", "l">>
POSTGRESQL == <<"p", "o", "s", "t", "g", "r", "e", "s", "q", "l">>
SQLITE == <<"s", "q", "l", "i", "t", "e">>
Dialects == {MYSQL, POSTGRESQL, SQLITE}

ConnV == [t |-> "connection", i |-> 0, s |-> <<>>, l |-> <<>>]

\* what cursor.execute does: it raises, or it leaves a result set (a
\* sequence of rows, each a sequence of values)
RaisesR == [raises |-> TRUE, rows |-> <<>>]
RowsR(rows) == [raises |-> FALSE, rows |-> rows]

\* cursor.fetchone() on the pending rows: the row (None when exhausted) and
\* the rows left
FetchOne(pending) ==
    IF pending = <<>> THEN [row |-> NoneV, rest |-> <<>>]
    ELSE [row |-> ListV(Head(pending)), rest |-> Tail(pending)]

\* value == 1 in Python
EqualsOne(v) == v.t \in {"int", "bool"} /\ v.i = 1

VersionText == <<"8", ".", "0">>
UnknownText == <<"U", "n", "k", "n", "o", "w", "n">>
NotSubscriptable == <<"'NoneType' object is not subscriptable">>
DriverError == <<"driver error">>

\* result sets of the queries of the four checks
OneRow == <<IntV(1)>>
ZeroRow == <<IntV(0)>>
VersionRow == <<StrV(VersionText)>>
CountRow == <<IntV(3)>>
NullRow == <<NoneV>>
StatusRow == <<StrV(<<"Threads_connected">>), StrV(<<"1">>)>>

SelectOneResponses == {RaisesR, RowsR(<<>>), RowsR(<<OneRow>>), RowsR(<<ZeroRow>>)}
VersionResponses == {RaisesR, RowsR(<<>>), RowsR(<<VersionRow>>)}
CountResponses == {RaisesR, RowsR(<<>>), RowsR(<<CountRow>>)}
SizeResponses == {RaisesR, RowsR(<<>>), RowsR(<<CountRow>>), RowsR(<<NullRow>>)}
StatusResponses == {RaisesR, RowsR(<<>>), RowsR(<<CountRow>>), RowsR(<<StatusRow>>)}

ConnectivityDrivers ==
    [call : {"basic_connectivity"}, cursor_ok : BOOLEAN, select1 : SelectOneResponses,
     version : VersionResponses, close_ok : BOOLEAN]

(***************************************************************************)
(* test_basic_connectivity                                                 *)
(***************************************************************************)
NoDetails == <<>>

\* the result dictionary every check starts from
CheckResult(test) ==
    [test |-> test, success |-> FALSE, response_time_ms |-> NoneV, error |-> NoneV,
     details |-> NoDetails]

Failed(result, message) == [result EXCEPT !.error = StrV(message)]

\* details['version'] for the row fetched after the version query
VersionDetail(dialect, version_result) ==
    IF version_result = NoneV THEN StrV(UnknownText)
    ELSE IF dialect = SQLITE
         THEN StrV(<<"S", "Q", "L", "i", "t", "e", " ">> \o py_str(version_result.l[1]))
         ELSE version_result.l[1]

\* test_basic_connectivity(connection, db_type), given what the driver does.
\* Both queries run on one cursor: the second execute replaces the result set
\* of the first, so the row fetched last comes from the version query.
test_basic_connectivity(dbt, d) ==
    LET result == CheckResult(<<"basic_connectivity">>)
        dialect == Lower(dbt)
        known == dialect \in Dialects
        version_fetch == FetchOne(d.version.rows)
        withVersion == IF known
                       THEN [result EXCEPT !.details =
                                [version |-> VersionDetail(dialect, version_fetch.row)]]
                       ELSE result
        pending == IF known THEN version_fetch.rest ELSE <<>>
        test_result == FetchOne(pending).row
        timed == [withVersion EXCEPT !.response_time_ms = IntV(1)]
    IN  IF ~d.cursor_ok THEN Failed(result, DriverError)
        ELSE IF known /\ d.select1.raises THEN Failed(result, DriverError)
        ELSE IF known /\ d.version.raises THEN Failed(result, DriverError)
        ELSE IF ~d.close_ok THEN Failed(withVersion, DriverError)
        ELSE IF test_result = NoneV THEN Failed(timed, NotSubscriptable)
        ELSE [timed EXCEPT !.success = EqualsOne(test_result.l[1])]


(***************************************************************************)
(* get_database_statistics                                                 *)
(***************************************************************************)
StatisticsDrivers ==
    [call : {"database_statistics"}, cursor_ok : BOOLEAN, q1 : CountResponses,
     q2 : SizeResponses, q3 : StatusResponses, getsize_ok : BOOLEAN, close_ok : BOOLEAN]

\* float(value) succeeds
FloatOk(v) == v.t \in {"int", "bool"} \/ (v.t = "str" /\ ParseInt(v.s).ok)

\* `cursor.fetchone()[0]` raises when there is no row
FirstOfRow(resp) == FetchOne(resp.rows).row

\* the mysql branch: returns the details, or "raised"
MysqlStatistics(d) ==
    LET count_row == FirstOfRow(d.q1)
        size_row == FirstOfRow(d.q2)
        size_mb == IF Truthy(size_row.l[1]) THEN size_row.l[1] ELSE IntV(0)
        conn_row == FirstOfRow(d.q3)
        active == IF conn_row = NoneV THEN Returned(IntV(0))
                  ELSE IF Len(conn_row.l) < 2 THEN Raised("IndexError")
                  ELSE py_int(conn_row.l[2])
    IN  IF d.q1.raises \/ count_row = NoneV THEN [ok |-> FALSE, details |-> NoDetails]
        ELSE IF d.q2.raises \/ size_row = NoneV THEN [ok |-> FALSE, details |-> NoDetails]
        ELSE IF d.q3.raises \/ active.exc # "none" THEN [ok |-> FALSE, details |-> NoDetails]
        ELSE IF ~FloatOk(size_mb) THEN [ok |-> FALSE, details |-> NoDetails]
        ELSE [ok |-> TRUE,
              details |-> [table_count |-> count_row.l[1], size_mb |-> size_mb,
                           active_connections |-> active.value]]

\* the postgresql branch
PostgresStatistics(d) ==
    LET count_row == FirstOfRow(d.q1)
        size_row == FirstOfRow(d.q2)
        conn_row == FirstOfRow(d.q3)
    IN  IF d.q1.raises \/ count_row = NoneV THEN [ok |-> FALSE, details |-> NoDetails]
        ELSE IF d.q2.raises \/ d.q3.raises THEN [ok |-> FALSE, details |-> NoDetails]
        ELSE [ok |-> TRUE,
              details |-> [table_count |-> count_row.l[1],
                           size_pretty |-> IF size_row = NoneV THEN StrV(UnknownText)
                                           ELSE size_row.l[1],
                           active_connections |-> IF conn_row = NoneV THEN IntV(0)
                                                  ELSE conn_row.l[1]]]

\* the sqlite branch: a failing os.path.getsize only zeroes the size
SqliteStatistics(d, database_name) ==
    LET count_row == FirstOfRow(d.q1)
    IN  IF d.q1.raises \/ count_row = NoneV THEN [ok |-> FALSE, details |-> NoDetails]
        ELSE [ok |-> TRUE,
              details |-> [table_count |-> count_row.l[1],
                           size_mb |-> IF d.getsize_ok THEN IntV(1) ELSE IntV(0),
                           file_path |-> database_name]]

get_database_statistics(dbt, database_name, d) ==
    LET result == CheckResult(<<"database_statistics">>)
        dialect == Lower(dbt)
        branch == IF dialect = MYSQL THEN MysqlStatistics(d)
                  ELSE IF dialect = POSTGRESQL THEN PostgresStatistics(d)
                  ELSE IF dialect = SQLITE THEN SqliteStatistics(d, database_name)
                  ELSE [ok |-> TRUE, details |-> NoDetails]
    IN  IF ~d.cursor_ok THEN Failed(result, DriverError)
        ELSE IF ~branch.ok THEN Failed(result, DriverError)
        ELSE IF ~d.close_ok THEN Failed([result EXCEPT !.details = branch.details], DriverError)
        ELSE [result EXCEPT !.details = branch.details,
                            !.response_time_ms = IntV(1),
                            !.success = TRUE]

(***************************************************************************)
(* test_query_performance                                                  *)
(***************************************************************************)
\* now_raises_at: the round trip of the timestamp loop at which execute
\* raises, 0 when none does
PerformanceDrivers ==
    [call : {"query_performance"}, cursor_ok : BOOLEAN, bench_ok : BOOLEAN,
     now_raises_at : {0, 1, TimestampQueries}, close_ok : BOOLEAN]

test_query_performance(dbt, d) ==
    LET result == CheckResult(<<"query_performance">>)
    IN  IF ~d.cursor_ok \/ ~d.bench_ok THEN Failed(result, DriverError)
        ELSE IF d.now_raises_at \in 1..TimestampQueries THEN Failed(result, DriverError)
        ELSE IF ~d.close_ok THEN Failed(result, DriverError)
        ELSE [result EXCEPT
                !.details = [performance_tests |->
                                <<[test |-> <<"computation_test">>, duration_ms |-> 1],
                                  [test |-> <<"100_timestamp_queries">>, duration_ms |-> 1]>>],
                !.response_time_ms = IntV(2),
                !.success = TRUE]

(***************************************************************************)
(* get_table_health                                                        *)
(***************************************************************************)
\* ntables: the tables the database holds; count_raises_at: the table whose
\* SELECT COUNT(*) raises (sqlite only), 0 when none does
TableDrivers ==
    [call : {"table_health"}, cursor_ok : BOOLEAN, list_ok : BOOLEAN,
     ntables : {0, 1, TableLimit, MaxTables}, count_raises_at : {0, 1},
     close_ok : BOOLEAN]

Min(a, b) == IF a < b THEN a ELSE b

\* the rows the listing query returns: mysql and postgresql say LIMIT 20,
\* sqlite lists every table
ListedTables(dialect, ntables) ==
    IF dialect \in {MYSQL, POSTGRESQL} THEN Min(ntables, TableLimit) ELSE ntables

get_table_health(dbt, database_name, d) ==
    LET result == CheckResult(<<"table_health">>)
        dialect == Lower(dbt)
        nrows == ListedTables(dialect, d.ntables)
        tables_info == [k \in 1..nrows |-> [table_name |-> k]]
        counting == dialect \notin {MYSQL, POSTGRESQL}
    IN  IF ~d.cursor_ok \/ ~d.list_ok THEN Failed(result, DriverError)
        ELSE IF counting /\ d.count_raises_at \in 1..nrows THEN Failed(result, DriverError)
        ELSE IF ~d.close_ok THEN Failed(result, DriverError)
        ELSE [result EXCEPT
                !.details = [tables |-> tables_info, table_count |-> Len(tables_info)],
                !.response_time_ms = IntV(1),
                !.success = TRUE]


(***************************************************************************)
(* database_health_check.py: main                                          *)
(***************************************************************************)
\* create_database_connection, given whether the driver's connect succeeds
create_database_connection(dbt, connects) ==
    IF Lower(dbt) \in Dialects
    THEN IF connects THEN Returned(ConnV) ELSE Raised("connect failed")
    ELSE Raised("Unsupported database type")

\* the default of the port parameter
DefaultPort(dbt) ==
    IF Lower(dbt) = MYSQL THEN IntV(MysqlPort)
    ELSE IF Lower(dbt) = POSTGRESQL THEN IntV(PostgresPort)
    ELSE NoneV

\* the tests list of main, in order
TestNames ==
    <<<<"basic_connectivity">>, <<"database_statistics">>,
      <<"query_performance">>, <<"table_health">>>>

\* what the driver can do during the k-th check
TestDrivers(k) ==
    CASE k = 1 -> ConnectivityDrivers
      [] k = 2 -> StatisticsDrivers
      [] k = 3 -> PerformanceDrivers
      [] k = 4 -> TableDrivers

\* test_func() of the k-th entry of the tests list
RunTest(k, dbt, database_name, d) ==
    CASE k = 1 -> test_basic_connectivity(dbt, d)
      [] k = 2 -> get_database_statistics(dbt, database_name, d)
      [] k = 3 -> test_query_performance(dbt, d)
      [] k = 4 -> get_table_health(dbt, database_name, d)

\* AfterTest with a loop that stops at the first failing check
AfterTestBreak(result, ran, total) ==
    IF ran = total \/ ~result.success THEN "finally" ELSE "tests"

\* where `for test_name, test_func in tests` goes after a check: on to the
\* next check whatever the result, and to the finally block after the last
AfterTest(result, ran, total) ==
    IF ran = total THEN "finally" ELSE "tests"

\* Verdict that lets the latest check decide
VerdictOfLast(overall, result) == result.success

\* overall_success after a check returned result
Verdict(overall, result) == IF result.success THEN overall ELSE FALSE

\* `if not database`, tested for None only
MissingDatabaseNoneOnly(db) == db = NoneV

\* `if not database`: None and the empty string are both missing
MissingDatabase(db) == ~Truthy(db)

\* ConnectionFailed that records no result
ConnectionFailedUnrecorded(rs, message) ==
    [all_results |-> rs, overall_success |-> FALSE, pc |-> "finally"]

\* the except block around the connection attempt: one synthetic result,
\* the verdict is false, and main goes on to the finally block
ConnectionFailed(rs, message) ==
    [all_results |-> Append(rs, [test |-> <<"connection">>, success |-> FALSE,
                                 error |-> StrV(<<message>>)]),
     overall_success |-> FALSE,
     pc |-> "finally"]

\* the finally block: `if connection:` decides whether close is called
ClosesConnection(conn) == Truthy(conn)

\* CloseOutcome without the try/except around connection.close()
CloseOutcomeUncaught(closed) ==
    IF closed THEN [pc |-> "summary", exit |-> NoExit]
    ELSE [pc |-> "done", exit |-> Traceback]

\* what a raising connection.close() does to main: the bare except passes
CloseOutcome(closed) == [pc |-> "summary", exit |-> NoExit]

\* sum(1 for result in all_results if result.get('success', False))
RECURSIVE CountSuccess(_)
CountSuccess(rs) ==
    IF rs = <<>> THEN 0
    ELSE (IF Head(rs).success THEN 1 ELSE 0) + CountSuccess(Tail(rs))

Max(a, b) == IF a > b THEN a ELSE b

\* (successful_tests/max(total_tests, 1))*100, rounded down to a whole percent
DbSuccessRate(successful, total) == (successful * 100) \div Max(total, 1)

DbExitCode(overall) == IF overall THEN 0 ELSE 1

DbSaveOutcome(written) ==
    [report |-> IF written THEN "written" ELSE "failed", pc |-> "exit", exit |-> NoExit]

\* main, lines 373-404: parameters and validation
DbParams ==
    /\ variant = "database" /\ pc = "params"
    /\ LET dbt == get_parameter_db(environ, N_db_type, StrV(MYSQL), "str").value
           p == get_parameter_db(environ, N_port, DefaultPort(dbt.s), "int").value
           db == get_parameter_db(environ, N_database, NoneV, "str").value
           t == get_parameter_db(environ, N_timeout, IntV(DefaultDbTimeout), "int").value
       IN  /\ db_type' = dbt
           /\ database' = db
           /\ timeout' = t
           /\ IF MissingDatabase(db)
              THEN /\ exit_code' = Exited(1) /\ pc' = "done"
                   /\ port' = p
              ELSE /\ port' = IF p = NoneV THEN DefaultPort(dbt.s) ELSE p
                   /\ pc' = "connect"
                   /\ UNCHANGED exit_code
    /\ UNCHANGED <<variant, environ, hosts_param, count, hosts, netVars,
                   connection, all_results, overall_success, tests_run, driver,
                   connect_calls, close_calls, summary, report, paramVars>>

\* main, lines 406-411 and 449-457: the connection attempt
DbConnect ==
    /\ variant = "database" /\ pc = "connect"
    /\ \E connects \in BOOLEAN :
          LET r == create_database_connection(db_type.s, connects)
          IN  /\ driver' = [call |-> "connect", raises |-> r.exc # "none"]
              /\ IF r.exc = "none"
                 THEN /\ connection' = r.value
                      /\ pc' = "tests"
                      /\ UNCHANGED <<all_results, overall_success>>
                 ELSE /\ overall_success' = ConnectionFailed(all_results, r.exc).overall_success
                      /\ all_results' = ConnectionFailed(all_results, r.exc).all_results
                      /\ pc' = ConnectionFailed(all_results, r.exc).pc
                      /\ UNCHANGED connection
    /\ connect_calls' = connect_calls + 1
    /\ UNCHANGED <<variant, environ, hosts_param, count, timeout, hosts, netVars,
                   db_type, port, database, tests_run, close_calls,
                   summary, report, exit_code, paramVars>>

\* main, lines 421-447: one iteration of the loop over the four checks
DbRunTest ==
    /\ variant = "database" /\ pc = "tests"
    /\ LET k == tests_run + 1
       IN  \E d \in TestDrivers(k) :
              LET result == RunTest(k, db_type.s, database.s, d)
              IN  /\ all_results' = Append(all_results, result)
                  /\ overall_success' = Verdict(overall_success, result)
                  /\ tests_run' = k
                  /\ driver' = d
                  /\ pc' = AfterTest(result, k, Len(TestNames))
    /\ UNCHANGED <<variant, environ, hosts_param, count, timeout, hosts, netVars,
                   db_type, port, database, connection, connect_calls, close_calls,
                   summary, report, exit_code, paramVars>>

\* main, lines 459-465: the finally block
DbFinally ==
    /\ variant = "database" /\ pc = "finally"
    /\ IF ClosesConnection(connection)
       THEN \E closed \in BOOLEAN :
               /\ close_calls' = close_calls + 1
               /\ driver' = [call |-> "close", raises |-> ~closed]
               /\ pc' = CloseOutcome(closed).pc
               /\ exit_code' = CloseOutcome(closed).exit
       ELSE /\ pc' = "summary"
            /\ UNCHANGED <<close_calls, driver, exit_code>>
    /\ UNCHANGED <<variant, environ, hosts_param, count, timeout, hosts, netVars,
                   db_type, port, database, connection, all_results, overall_success,
                   tests_run, connect_calls, summary, report, paramVars>>

\* main, lines 467-478: the summary block
DbSummary ==
    /\ variant = "database" /\ pc = "summary"
    /\ LET successful_tests == CountSuccess(all_results)
           total_tests == Len(all_results)
       IN  summary' = [total |-> total_tests,
                       successful |-> successful_tests,
                       failed |-> total_tests - successful_tests,
                       success_rate |-> DbSuccessRate(successful_tests, total_tests),
                       computed |-> TRUE]
    /\ pc' = "save"
    /\ UNCHANGED <<variant, environ, hosts_param, count, timeout, hosts, netVars,
                   dbVars, report, exit_code, paramVars>>

\* main, lines 480-510: the report file, written or not
DbSave ==
    /\ variant = "database" /\ pc = "save"
    /\ \E written \in BOOLEAN :
          /\ report' = DbSaveOutcome(written).report
          /\ pc' = DbSaveOutcome(written).pc
          /\ exit_code' = DbSaveOutcome(written).exit
    /\ UNCHANGED <<variant, environ, hosts_param, count, timeout, hosts, netVars,
                   dbVars, summary, paramVars>>

\* main, lines 512-518
DbExit ==
    /\ variant = "database" /\ pc = "exit"
    /\ exit_code' = Exited(DbExitCode(overall_success))
    /\ pc' = "done"
    /\ UNCHANGED <<variant, environ, hosts_param, count, timeout, hosts, netVars,
                   dbVars, summary, report, paramVars>>

(***************************************************************************)
(* The runs of the two scripts                                             *)
(***************************************************************************)
HostChars == {"a", "b", ",", " "}
HostsRaws == {Unset} \cup {StrV(x) : x \in SeqsUpTo(HostChars, MaxHostsLen)}
\* PARAM_COUNT and PARAM_TIMEOUT: both unset, or a count and a timeout that
\* is not a number
CountTimeoutRaws == {<<Unset, Unset>>, <<StrV(<<"2">>), StrV(<<"x">>)>>}

NetEnvirons ==
    {MkEnviron({N_hosts, N_count, N_timeout},
               (N_hosts :> h) @@ (N_count :> ct[1]) @@ (N_timeout :> ct[2])) :
        h \in HostsRaws, ct \in CountTimeoutRaws}

DbTypeRaws == {Unset, StrV(SQLITE), StrV(<<"P", "o", "s", "t", "g", "r", "e", "S", "Q", "L">>),
               StrV(<<"o", "r", "a", "c", "l", "e">>)}
DatabaseRaws == {Unset, StrV(<<>>), StrV(<<"d">>)}
PortRaws == {Unset, StrV(<<"x">>)}

DbEnvirons ==
    {MkEnviron({N_db_type, N_database, N_port},
               (N_db_type :> t) @@ (N_database :> d) @@ (N_port :> p)) :
        t \in DbTypeRaws, d \in DatabaseRaws, p \in PortRaws}

Init ==
    /\ variant \in {"network", "database"}
    /\ environ \in (IF variant = "network" THEN NetEnvirons ELSE DbEnvirons)
    /\ pc = "params"
    /\ hosts_param = NoneV /\ count = NoneV /\ timeout = NoneV /\ hosts = <<>>
    /\ results = <<>> /\ total_hosts = 0 /\ successful_hosts = 0
    /\ transport = Idle
    /\ db_type = NoneV /\ port = NoneV /\ database = NoneV
    /\ connection = NoneV /\ all_results = <<>> /\ overall_success = TRUE
    /\ tests_run = 0 /\ driver = Idle
    /\ connect_calls = 0 /\ close_calls = 0
    /\ summary = NoSummary /\ report = "none" /\ exit_code = NoExit
    /\ call = Idle /\ ret = Idle

Next ==
    \/ NetParams \/ NetPing \/ NetSummary \/ NetSave \/ NetExit
    \/ DbParams \/ DbConnect \/ DbRunTest \/ DbFinally \/ DbSummary \/ DbSave \/ DbExit

Spec == Init /\ [][Next]_vars


(***************************************************************************)
(* Properties of the runs                                                  *)
(***************************************************************************)
AllSucceed(rs) == \A i \in 1..Len(rs) : rs[i].success
NoneSucceed(rs) == \A i \in 1..Len(rs) : ~rs[i].success

\* the network run got past validation and has ended
NetRunEnded == variant = "network" /\ pc = "done" /\ hosts # <<>>

\* C1: a network run that reached the probe loop exits 0 iff every host's
\* result is a success, 2 iff none is, and 1 iff some but not all are.
C1_NetworkExitCode ==
    NetRunEnded =>
        /\ Len(results) = Len(hosts)
        /\ (exit_code = Exited(0) <=> AllSucceed(results))
        /\ (exit_code = Exited(2) <=> NoneSucceed(results))
        /\ (exit_code = Exited(1) <=> (~AllSucceed(results) /\ ~NoneSucceed(results)))

\* two hosts, the first reachable and the second not: exit code 1
C1_Witness ==
    /\ NetRunEnded
    /\ Len(results) = 2
    /\ results[1].success /\ ~results[2].success
    /\ exit_code = Exited(1)

\* the database run got past validation and has reached the report
DbRunReporting == variant = "database" /\ pc \in {"save", "exit", "done"} /\ Truthy(database)

\* C2: in a database run that passed validation, the overall_success written
\* to the report is true iff every result is a success, and the process
\* exits 0 iff overall_success is true and 1 otherwise.
C2_OverallSuccess ==
    DbRunReporting =>
        /\ overall_success = AllSucceed(all_results)
        /\ (pc = "done" =>
              /\ (exit_code = Exited(0) <=> overall_success)
              /\ (exit_code = Exited(1) <=> ~overall_success))

\* a failed connectivity check followed by three checks that pass: exit 1
C2_Witness ==
    /\ DbRunReporting /\ pc = "done"
    /\ Len(all_results) = 4
    /\ ~all_results[1].success
    /\ all_results[2].success /\ all_results[3].success /\ all_results[4].success
    /\ ~overall_success
    /\ exit_code = Exited(1)

\* C3: the network run probes the hosts in order, one result per host, and
\* no outcome of a probe keeps the later hosts from being probed.
C3_OneResultPerHost ==
    variant = "network" =>
        /\ Len(results) <= Len(hosts)
        /\ \A i \in 1..Len(results) : results[i].host = hosts[i]
        /\ (pc \in {"summary", "save", "exit", "done"} => Len(results) = Len(hosts))

\* two hosts: ping could not be started for the first, then timed out for
\* the second, and both have their result
C3_Witness ==
    /\ NetRunEnded
    /\ hosts = <<<<"a">>, <<"b">>>>
    /\ Len(results) = 2
    /\ results[1].error = StrV(<<"no ping binary">>)
    /\ transport.kind = "timeout"
    /\ results[2].host = <<"b">> /\ ~results[2].success

\* the connection attempt was made and failed
ConnectFailed == variant = "database" /\ connect_calls > 0 /\ connection = NoneV

\* C4: when the connection cannot be established no check runs, the only
\* result is the failed "connection" result, the run goes on to summary and
\* report, and the exit code is 1.
C4_ConnectionFailure ==
    ConnectFailed =>
        /\ tests_run = 0 /\ close_calls = 0
        /\ Len(all_results) = 1
        /\ all_results[1].test = <<"connection">>
        /\ ~all_results[1].success
        /\ pc \in {"finally", "summary", "save", "exit", "done"}
        /\ (pc = "done" =>
              /\ summary.computed /\ summary.total = 1
              /\ report # "none"
              /\ exit_code = Exited(1))

\* a supported dialect whose connect raised, at the end of the run
C4_Witness ==
    /\ ConnectFailed /\ pc = "done"
    /\ Lower(db_type.s) = POSTGRESQL
    /\ report = "written"
    /\ exit_code = Exited(1)

\* the connection was established
Connected == variant = "database" /\ connection # NoneV

\* C5: once connected, the four checks run in their fixed order whatever
\* their outcomes, and leave exactly four results in that order.
C5_FourChecksInOrder ==
    Connected =>
        /\ Len(all_results) = tests_run
        /\ \A i \in 1..Len(all_results) : all_results[i].test = TestNames[i]
        /\ (pc \in {"finally", "summary", "save", "exit", "done"} => Len(all_results) = 4)

\* the first three checks failed and the fourth still ran and passed
C5_Witness ==
    /\ Connected /\ pc = "done"
    /\ Len(all_results) = 4
    /\ ~all_results[1].success /\ ~all_results[2].success /\ ~all_results[3].success
    /\ all_results[4].success

\* every call of the driver executes and the version query reports a version
AllExecute(d) ==
    /\ d.cursor_ok /\ d.close_ok
    /\ ~d.select1.raises
    /\ d.version = RowsR(<<VersionRow>>)

\* the trivial query returned the single row (1,)
SelectOneReturnedOne(d) == d.select1 = RowsR(<<OneRow>>)

\* a healthy database: every call executes, both queries return their row
Healthy(d) ==
    /\ d.cursor_ok /\ d.close_ok
    /\ d.select1 = RowsR(<<OneRow>>)
    /\ d.version = RowsR(<<VersionRow>>)

\* C6: on a cursor whose execute replaces the pending result set, whenever
\* every call executes and the version is reported, test_basic_connectivity
\* reports success iff the trivial query returned 1; against a healthy
\* database it reports success with the version recorded.
C6_ConnectivityIffSelectOne ==
    (variant = "database" /\ driver.call = "basic_connectivity") =>
        /\ (Healthy(driver) =>
              /\ all_results[1].success
              /\ all_results[1].details.version = StrV(VersionText))
        /\ (AllExecute(driver) =>
              (all_results[1].success <=> SelectOneReturnedOne(driver)))

\* the raw parameter a run was started with, Unset when there is none
RawParam(name) == EnvironGet(environ, EnvName(name), Unset)

BlankHosts ==
    LET raw == RawParam(N_hosts)
    IN  raw = Unset \/ \A k \in 1..Len(raw.s) : raw.s[k] \in {",", " "}

\* the run was started with a missing required parameter
ConfigurationError ==
    \/ variant = "network" /\ BlankHosts
    \/ variant = "database" /\ RawParam(N_database) \in {Unset, StrV(<<>>)}

\* C7: with a missing or blank hosts parameter, or a missing or empty
\* database parameter, the process exits 1 before any probe, any connection
\* attempt and any report.
C7_ConfigurationErrorsAbort ==
    ConfigurationError =>
        /\ pc \in {"params", "done"}
        /\ results = <<>> /\ all_results = <<>>
        /\ tests_run = 0 /\ connect_calls = 0
        /\ ~summary.computed
        /\ report = "none"
        /\ (pc = "done" => exit_code = Exited(1))

\* a hosts parameter of blanks and a comma has ended the run
C7_Witness ==
    /\ variant = "network" /\ pc = "done"
    /\ RawParam(N_hosts) = StrV(<<" ", ",", " ">>)
    /\ exit_code = Exited(1) /\ report = "none"

\* the exit code the results call for
ResultsExitCode ==
    IF variant = "network"
    THEN (IF AllSucceed(results) THEN 0 ELSE IF NoneSucceed(results) THEN 2 ELSE 1)
    ELSE (IF AllSucceed(all_results) THEN 0 ELSE 1)

\* C8: whether the report was written or the write raised, the run goes on
\* to the exit and its exit code is the one the results call for.
C8_ReportSinkIndependence ==
    report \in {"written", "failed"} =>
        /\ pc \in {"exit", "done"}
        /\ (pc = "exit" => exit_code = NoExit)
        /\ (pc = "done" => exit_code = Exited(ResultsExitCode))

\* every host reachable, the write raised, and the exit code is still 0
C8_Witness ==
    /\ NetRunEnded
    /\ report = "failed"
    /\ AllSucceed(results)
    /\ exit_code = Exited(0)

\* C9: in a connected run close is attempted exactly once, after the fourth
\* check and before the summary; a raising close is swallowed, so the run
\* still computes the summary, attempts the report, and ends with the
\* verdict and exit code its results call for.
C9_CloseOnceAndSwallowed ==
    Connected =>
        /\ close_calls = (IF pc \in {"tests", "finally"} THEN 0 ELSE 1)
        /\ (close_calls = 1 => tests_run = 4 /\ Len(all_results) = 4)
        /\ (summary.computed => close_calls = 1)
        /\ (pc \in {"summary", "save", "exit", "done"} =>
              overall_success = AllSucceed(all_results))
        /\ (pc = "done" =>
              /\ summary.computed
              /\ report # "none"
              /\ exit_code = Exited(ResultsExitCode))

\* close raised after four checks of which one failed, and the run ended
\* with its report written
C9_Witness ==
    /\ Connected /\ pc = "done"
    /\ driver = [call |-> "close", raises |-> TRUE]
    /\ close_calls = 1
    /\ ~all_results[1].success /\ all_results[2].success
    /\ report = "written"
    /\ exit_code = Exited(1)

\* the number the rate is divided by
SummaryDivisor == IF variant = "network" THEN total_hosts ELSE Len(all_results)

\* C11: wherever the summary is computed the divisor of the rate is at
\* least 1, and the computed summary has successful + failed = total and a
\* rate between 0 and 100.
C11_RunSummary ==
    /\ (pc \in {"summary", "save"} => SummaryDivisor >= 1)
    /\ (summary.computed =>
          /\ summary.total = SummaryDivisor
          /\ summary.successful + summary.failed = summary.total
          /\ summary.successful >= 0 /\ summary.failed >= 0
          /\ summary.success_rate >= 0 /\ summary.success_rate <= 100)

\* one of two hosts reachable: a rate of 50
C11_Witness ==
    /\ variant = "network" /\ summary.computed
    /\ summary.total = 2 /\ summary.successful = 1 /\ summary.failed = 1
    /\ summary.success_rate = 50

\* a host has been probed: transport holds what subprocess.run did for it
\* and the last result is what ping_host returned
Probed == variant = "network" /\ transport.kind # "idle"
LastResult == results[Len(results)]

\* the line of the output at which a conversion raises, 0 when none does
RECURSIVE FirstBadLine(_, _)
FirstBadLine(lines, k) ==
    IF k > Len(lines) THEN 0
    ELSE IF lines[k] \in {"stats_bad", "rtt_bad"} THEN k
    ELSE FirstBadLine(lines, k + 1)

\* the lines of the output the parser gets through
ParsedLines(lines) ==
    IF FirstBadLine(lines, 1) = 0 THEN lines
    ELSE SubSeq(lines, 1, FirstBadLine(lines, 1) - 1)

HasLine(lines, kind) == \E k \in 1..Len(lines) : lines[k] = kind

\* C12: ping_host reports success iff the ping process completed with return
\* code 0, also when the parser finds nothing in the output or raises; the
\* timings it could not parse stay None.
C12_SuccessIffZeroExit ==
    Probed =>
        /\ (LastResult.success <=> (transport.kind = "completed" /\ transport.returncode = 0))
        /\ (~HasLine(ParsedLines(transport.stdout), "rtt_ok") =>
              /\ LastResult.min_time = NoneV
              /\ LastResult.avg_time = NoneV
              /\ LastResult.max_time = NoneV)

\* ping exited 0 and the parser raised on its statistics line: a success
\* without timings
C12_Witness ==
    /\ Probed
    /\ transport.returncode = 0 /\ transport.stdout = <<"stats_bad", "rtt_ok">>
    /\ LastResult.success
    /\ LastResult.avg_time = NoneV

\* ping exited with a non-zero status and its output shows two of four
\* packets received
PartialOnFailure ==
    /\ Probed
    /\ transport.kind = "completed" /\ transport.returncode # 0
    /\ HasLine(transport.stdout, "stats_partial")

\* C13: when ping exits non-zero although some packets were received, the
\* result is a failure whose packet counts and loss are the measured ones,
\* not the defaults 0 sent, 0 received, 100% loss.
C13_PartialLossRecorded ==
    PartialOnFailure =>
        /\ ~LastResult.success
        /\ LastResult.packets_sent = 4
        /\ LastResult.packets_received = 2
        /\ LastResult.packet_loss_percent = 50

\* ping exited 0 and a conversion of its output raised
ParseRaised ==
    /\ transport.kind = "completed" /\ transport.returncode = 0
    /\ FirstBadLine(transport.stdout, 1) # 0

\* C14 as stated: the error of a result is set iff the result is a failure.
C14_ErrorIffFailure ==
    Probed => (LastResult.error # NoneV <=> ~LastResult.success)

\* C14, amended: the error of a result is set iff the result is a failure
\* or parsing the output of a successful ping raised.
C14_ErrorIffFailureOrParseError ==
    Probed => (LastResult.error # NoneV <=> (~LastResult.success \/ ParseRaised))

\* a success that carries the message of the conversion that raised
C14_Witness ==
    /\ Probed /\ ParseRaised
    /\ LastResult.success
    /\ LastResult.error = StrV(<<"could not convert">>)

\* C15: the table_health result lists at most 20 tables, on every dialect.
C15_TableHealthBound ==
    (variant = "database" /\ driver.call = "table_health" /\ all_results[4].success) =>
        /\ all_results[4].details.table_count <= TableLimit
        /\ Len(all_results[4].details.tables) <= TableLimit

(***************************************************************************)
(* get_parameter on its own: one call per behaviour                        *)
(***************************************************************************)
ParamChars == {"1", "-", " ", "o", "N", ","}
ParamRaws == {Unset} \cup {StrV(x) : x \in SeqsUpTo(ParamChars, MaxRawLen)}
ParamNames == {N_count, <<"C", "o", "u", "n", "t">>}
ParamTypes == {"str", "int", "bool", "list"}

\* declared defaults: None, or a value of the declared type
DefaultsOf(param_type) ==
    CASE param_type = "str" -> {NoneV, StrV(<<>>), StrV(<<"d">>)}
      [] param_type = "int" -> {NoneV, IntV(0), IntV(DefaultCount)}
      [] param_type = "bool" -> {NoneV, BoolV(TRUE), BoolV(FALSE)}
      [] param_type = "list" -> {NoneV, ListV(<<>>), ListV(<<<<"a">>>>)}

ParamCalls ==
    UNION {[script : {"network", "database"}, name : ParamNames,
            default : DefaultsOf(ty), param_type : {ty}] : ty \in ParamTypes}

InitParam ==
    /\ variant = "get_parameter"
    /\ pc = "call"
    /\ call \in ParamCalls
    /\ environ \in {MkEnviron({N_count}, (N_count :> raw)) : raw \in ParamRaws}
    /\ ret = Idle
    /\ hosts_param = NoneV /\ count = NoneV /\ timeout = NoneV /\ hosts = <<>>
    /\ results = <<>> /\ total_hosts = 0 /\ successful_hosts = 0
    /\ transport = Idle
    /\ db_type = NoneV /\ port = NoneV /\ database = NoneV
    /\ connection = NoneV /\ all_results = <<>> /\ overall_success = TRUE
    /\ tests_run = 0 /\ driver = Idle
    /\ connect_calls = 0 /\ close_calls = 0
    /\ summary = NoSummary /\ report = "none" /\ exit_code = NoExit

\* the call returns or raises
GetParameter ==
    /\ variant = "get_parameter" /\ pc = "call"
    /\ ret' = IF call.script = "network"
              THEN get_parameter_net(environ, call.name, call.default, call.param_type)
              ELSE get_parameter_db(environ, call.name, call.default, call.param_type)
    /\ pc' = "returned"
    /\ UNCHANGED <<variant, environ, hosts_param, count, timeout, hosts, netVars,
                   dbVars, summary, report, exit_code, call>>

NextParam == GetParameter

SpecParam == InitParam /\ [][NextParam]_vars

(***************************************************************************)
(* C10                                                                     *)
(***************************************************************************)
\* the raw value the call finds in the environment, Unset when there is none
RawOf(c) == EnvironGet(environ, EnvName(c.name), Unset)

\* C10: get_parameter never fails: it raises for no raw string value, it
\* returns the declared default when the variable is not set, and it returns
\* the declared default when the type is int and the raw value is not an
\* integer literal.
C10_ParameterResolutionNeverFails ==
    (variant = "get_parameter" /\ pc = "returned") =>
        /\ ret.exc = "none"
        /\ (RawOf(call) = Unset => ret.value = call.default)
        /\ (RawOf(call) # Unset /\ call.param_type = "int" /\ ~ParseInt(RawOf(call).s).ok
                => ret.value = call.default)

\* an int parameter with a non-None default whose raw value is not a number
\* has been resolved to the default
C10_Witness ==
    /\ variant = "get_parameter" /\ pc = "returned"
    /\ call.param_type = "int" /\ call.default = IntV(DefaultCount)
    /\ RawOf(call) = StrV(<<"1", "-", "o">>)
    /\ ret = Returned(IntV(DefaultCount))

====
